---- MODULE Spec2Model ----
(***************************************************************************)
(* Model of the trident circuit intermediate representation:               *)
(*   - the handle allocator (src/src/symbol.rs, src/src/circuit.rs),       *)
(*   - the builder / circuit lifecycle (src/src/circuit.rs),               *)
(*   - the word codec of instructions (src/src/storage.rs,                 *)
(*     src/src/operation.rs, src/src/instruction.rs),                      *)
(*   - handle ranges (List, src/src/symbol.rs) and boxed parameters        *)
(*     (src/src/parameter.rs),                                             *)
(*   - tuples of handles (SymbolTuple, src/src/symbol.rs) and bit sets     *)
(*     (src/src/bitset.rs).                                                *)
(*                                                                         *)
(* Counters are u32 in the program.  The model keeps the arithmetic of a   *)
(* fixed-width unsigned integer (checked in a debug build, wrapping in a   *)
(* release build) at a reduced width of U32Bits bits, and the width of the *)
(* f32 mantissa at MANTISSA_DIGITS bits, so that the maxima of the handle  *)
(* kinds are reached within the bounds.                                    *)
(***************************************************************************)
EXTENDS Integers, Sequences, FiniteSets, TLC

VARIABLES
    build,          \* "debug" (overflow checks on) or "release" (wrapping)
    ptrWords,       \* size of a pointer / usize in words: 1 or 2
    layout,         \* field order the compiler gave the (InstrFlags, u16) tuple
    phase,          \* "none" | "building" | "circuit" | "panicked"
    num_qubits,     \* CircuitBuilder::num_qubits
    num_bits,       \* CircuitBuilder::num_bits
    num_formals,    \* CircuitBuilder::num_formals
    num_ancillas,   \* CircuitBuilder::num_ancillas
    data,           \* CircuitBuilder::data (InstrVec::data), a Vec<u32>
    circ,           \* the finalized QuantumCircuit, or NoCircuit
    last,           \* record of the last call made on the builder
    issued,         \* per kind: indices of the handles returned so far
    calls,          \* number of calls made on the builder of this circuit
    appended,       \* the instructions appended so far, in order
    src,            \* InstrIter::src, the words not yet decoded
    instr,          \* InstrIter::instr, the instruction decoded last
    yielded,        \* what InstrIter::next returned, call after call
    consumed,       \* words the last Instr::read took from the source
    session,        \* how the builder was opened: by new or by edit
    returned        \* the last call made on a finalized circuit or on a
                    \* List, and its result

vars == << build, ptrWords, layout, phase, num_qubits, num_bits, num_formals,
           num_ancillas, data, circ, last, issued, calls, appended, src,
           instr, yielded, consumed, session, returned >>

builderVars == << num_qubits, num_bits, num_formals, num_ancillas, data >>
codecVars == << appended, src, instr, yielded, consumed >>
targetVars == << build, ptrWords, layout >>

----------------------------------------------------------------------------
(* Bounds *)

\* width of a counter word in the model (32 in the program)
U32Bits == 5
\* f32::MANTISSA_DIGITS in the model (24 in the program)
MANTISSA_DIGITS == 3
\* number of calls made on the builder of one circuit
MaxCalls == 3
\* the N of alloc_n::<N>, qubits::<N>, bits::<N>, formals::<N>
ArrayN == 2
\* number of instructions appended to one buffer in the codec specification
MaxInstrs == 2
\* number of words of a buffer handed to the decoder as it is
MaxWords == 4

----------------------------------------------------------------------------
(* Fixed-width arithmetic *)

RECURSIVE Pow2(_)
Pow2(n) == IF n = 0 THEN 1 ELSE 2 * Pow2(n - 1)

U32_MAX == Pow2(U32Bits) - 1

USIZE_MAX == Pow2(U32Bits * ptrWords) - 1

\* a - b on unsigned integers of maximum `max`: a checked build panics on
\* underflow, an unchecked build wraps
Sub(a, b, max) ==
    [ panic |-> (b > a) /\ build = "debug",
      val   |-> IF b > a THEN a - b + max + 1 ELSE a - b ]

\* a + b on unsigned integers of maximum `max`
Add(a, b, max) ==
    [ panic |-> (a + b > max) /\ build = "debug",
      val   |-> (a + b) % (max + 1) ]

----------------------------------------------------------------------------
(* Handle kinds: symbols! { Qubit, FormalParameter, Bit } *)

Kinds == { "Qubit", "FormalParameter", "Bit" }

\* Symbol::MAX: the default of the trait, overridden by Bit
MAX(kind) ==
    IF kind = "Bit" THEN Pow2(MANTISSA_DIGITS) ELSE U32_MAX - 1

\* Symbol::count: the counter of the builder a kind allocates from
count(kind) ==
    CASE kind = "Qubit"           -> num_qubits
      [] kind = "FormalParameter" -> num_formals
      [] kind = "Bit"             -> num_bits

\* the counter of `kind` among the counters c
CountIn(c, kind) ==
    CASE kind = "Qubit"           -> c.num_qubits
      [] kind = "FormalParameter" -> c.num_formals
      [] kind = "Bit"             -> c.num_bits

NoCircuit == [ none |-> TRUE ]
NoCall == [ op |-> "none" ]
\* no call made yet on the builder that from_circ made of the circuit c
Opened(c) == [ op |-> "opened", circ |-> c ]
NoSession == [ op |-> "none" ]
NoReturn == [ op |-> "none" ]

Counters ==
    [ num_qubits |-> num_qubits, num_bits |-> num_bits,
      num_formals |-> num_formals, num_ancillas |-> num_ancillas ]

\* the indices start, start+1, ..., start+n-1 as a sequence
Consecutive(start, n) == [ i \in 1..n |-> start + i - 1 ]

Range(s) == { s[i] : i \in 1..Len(s) }

----------------------------------------------------------------------------
(* Outcome of a call on the builder *)

\* the counters of the builder become `c`
SetCounters(c) ==
    /\ num_qubits' = c.num_qubits
    /\ num_bits' = c.num_bits
    /\ num_formals' = c.num_formals
    /\ num_ancillas' = c.num_ancillas

\* the counters with the counter of `kind` set to v
WithCount(kind, v) ==
    CASE kind = "Qubit"           -> [ Counters EXCEPT !.num_qubits = v ]
      [] kind = "FormalParameter" -> [ Counters EXCEPT !.num_formals = v ]
      [] kind = "Bit"             -> [ Counters EXCEPT !.num_bits = v ]

\* A call `op` that hands out handles of `kind` returns: it panicked, or it
\* returned Ok with `handles` (and, for alloc_list, the range) and left the
\* counters at `c`, or it returned Err(AllocOverflow).
Return(op, kind, n, panic, ok, c, handles, range) ==
    /\ calls' = calls + 1
    /\ UNCHANGED << targetVars, data, circ, codecVars, session, returned >>
    /\ IF panic
       THEN /\ phase' = "panicked"
            /\ last' = [ op |-> op, kind |-> kind, n |-> n, pre |-> Counters,
                         preData |-> data, ok |-> FALSE, panic |-> TRUE,
                         handles |-> << >>, range |-> << >> ]
            /\ UNCHANGED << num_qubits, num_bits, num_formals, num_ancillas,
                            issued >>
       ELSE /\ phase' = phase
            /\ SetCounters(c)
            /\ last' = [ op |-> op, kind |-> kind, n |-> n, pre |-> Counters,
                         preData |-> data, ok |-> ok, panic |-> FALSE,
                         handles |-> IF ok THEN handles ELSE << >>,
                         range |-> IF ok THEN range ELSE << >> ]
            /\ issued' = IF ok /\ kind \in Kinds
                         THEN [ issued EXCEPT ![kind] = @ \cup Range(handles) ]
                         ELSE issued

----------------------------------------------------------------------------
(* symbol.rs: the Symbol trait *)

\* checked_incr that adds before it checks
checked_incr_eager(kind, a, n) ==
    LET diff == Sub(MAX(kind), a, U32_MAX)
        sum  == Add(a, n % (U32_MAX + 1), U32_MAX)
    IN  [ panic |-> diff.panic \/ sum.panic,
          ok    |-> n < diff.val,
          val   |-> sum.val ]

\* Symbol::checked_incr(a, n): (n < (Self::MAX - *a) as usize)
\*     .then(|| *a += n as u32).ok_or(AllocOverflow)
checked_incr(kind, a, n) ==
    LET diff == Sub(MAX(kind), a, U32_MAX)
        ok   == n < diff.val
        sum  == Add(a, n % (U32_MAX + 1), U32_MAX)
    IN  [ panic |-> diff.panic \/ (ok /\ sum.panic),
          ok    |-> ok,
          val   |-> IF ok THEN sum.val ELSE a ]

\* Symbol::alloc: the handle made from the counter before the increment
alloc_handles(c) == << c >>

\* Symbol::alloc_n: [0; N].map(|_| { res = new_unchecked(start); start += 1 })
alloc_n_handles(start, N) ==
    [ i \in 1..N |-> (start + i - 1) % (U32_MAX + 1) ]

\* Symbol::alloc_list: List::from_range(start..*count)
alloc_list_range(start, end) == << start, end >>

\* the handles a List of range <<start, end>> stands for
ListHandles(r) ==
    IF r[1] < r[2] THEN Consecutive(r[1], r[2] - r[1]) ELSE << >>

alloc(kind) ==
    LET c == count(kind)
        r == checked_incr(kind, c, 1)
    IN  /\ phase = "building"
        /\ calls < MaxCalls
        /\ Return("alloc", kind, 1, r.panic, r.ok, WithCount(kind, r.val),
                  alloc_handles(c), << >>)

alloc_n(kind, N) ==
    LET c == count(kind)
        r == checked_incr(kind, c, N)
    IN  /\ phase = "building"
        /\ calls < MaxCalls
        /\ Return("alloc_n", kind, N, r.panic, r.ok, WithCount(kind, r.val),
                  alloc_n_handles(c, N), << >>)

alloc_list(kind, len) ==
    LET start == count(kind)
        r == checked_incr(kind, start, len)
        range == alloc_list_range(start, r.val)
    IN  /\ phase = "building"
        /\ calls < MaxCalls
        /\ len <= USIZE_MAX
        /\ Return("alloc_list", kind, len, r.panic, r.ok,
                  WithCount(kind, r.val), ListHandles(range), range)

\* the lengths alloc_list is called with: empty, up to the last slots of
\* each kind, and one that does not fit in a u32
ListLens(kind) ==
    { 0, U32_MAX + 1 } \cup UNION { { MAX(k) - 2, MAX(k) - 1 } : k \in Kinds }

----------------------------------------------------------------------------
(* symbol.rs: SymbolTuple, the tuples (A, B, ...) of handle kinds, and       *)
(* CircuitBuilder::alloc                                                   *)

\* the counters c with the counter of `kind` set to v
CountersWith(c, kind, v) ==
    CASE kind = "Qubit"           -> [ c EXCEPT !.num_qubits = v ]
      [] kind = "FormalParameter" -> [ c EXCEPT !.num_formals = v ]
      [] kind = "Bit"             -> [ c EXCEPT !.num_bits = v ]

\* SymbolTuple::alloc for (A, B, ...): Ok((b.alloc::<A>()?, b.alloc::<B>()?,
\* ...)) on a builder whose counters are c: the elements are allocated from
\* left to right and the first failure returns
RECURSIVE tuple_alloc(_, _)
tuple_alloc(T, c) ==
    IF T = << >>
    THEN [ panic |-> FALSE, ok |-> TRUE, c |-> c, handles |-> << >> ]
    ELSE LET kind == Head(T)
             a    == CountIn(c, kind)
             r    == checked_incr(kind, a, 1)
         IN  IF r.panic \/ ~r.ok
             THEN [ panic |-> r.panic, ok |-> FALSE, c |-> c,
                    handles |-> << >> ]
             ELSE LET rest == tuple_alloc(Tail(T),
                                          CountersWith(c, kind, r.val))
                  IN  [ rest EXCEPT !.handles =
                            << [ kind |-> kind, n |-> a ] >> \o @ ]

\* CircuitBuilder::alloc::<T>(): T::alloc(self)
alloc_tuple(T) ==
    LET r == tuple_alloc(T, Counters)
    IN  /\ phase = "building"
        /\ calls < MaxCalls
        /\ calls' = calls + 1
        /\ UNCHANGED << targetVars, data, circ, codecVars, session, returned >>
        /\ last' = [ op |-> "alloc_tuple", kind |-> T, n |-> Len(T),
                     pre |-> Counters, preData |-> data, ok |-> r.ok,
                     panic |-> r.panic,
                     handles |-> IF r.ok THEN r.handles ELSE << >>,
                     range |-> << >> ]
        /\ IF r.panic
           THEN /\ phase' = "panicked"
                /\ UNCHANGED << num_qubits, num_bits, num_formals,
                                num_ancillas, issued >>
           ELSE /\ phase' = phase
                /\ SetCounters(r.c)
                /\ issued' =
                       IF r.ok
                       THEN [ k \in Kinds |->
                                issued[k]
                                    \cup { h.n : h \in { x \in Range(r.handles) :
                                                             x.kind = k } } ]
                       ELSE issued

\* the tuples alloc is called for
TupleTypes ==
    { << "Qubit", "Bit" >>, << "Bit", "Qubit" >>, << "Bit", "Bit" >>,
      << "Qubit", "FormalParameter", "Bit" >> }

----------------------------------------------------------------------------
(* circuit.rs: the methods of CircuitBuilder *)

\* CircuitBuilder::width
width == Add(num_qubits, num_ancillas, USIZE_MAX)

\* incr(val) called N times on a counter that holds v: the values returned
\* and the counter afterwards
incr(v, N) ==
    [ panic |-> (v + N > U32_MAX) /\ build = "debug",
      prev  |-> [ i \in 1..N |-> (v + i - 1) % (U32_MAX + 1) ],
      val   |-> (v + N) % (U32_MAX + 1) ]

\* A builder method hands out N handles of `kind` when N < max - used, and
\* takes their indices from num_bits.
BuilderAlloc(op, kind, N, used) ==
    LET diff == Sub(MAX(kind), used.val, USIZE_MAX)
        ok   == N < diff.val
        i    == incr(num_bits, N)
    IN  /\ phase = "building"
        /\ calls < MaxCalls
        /\ Return(op, kind, N, used.panic \/ diff.panic \/ (ok /\ i.panic),
                  ok, IF ok THEN [ Counters EXCEPT !.num_bits = i.val ]
                            ELSE Counters,
                  i.prev, << >>)

NoPanic(v) == [ panic |-> FALSE, val |-> v ]

qubit == BuilderAlloc("qubit", "Qubit", 1, width)

qubits(N) == BuilderAlloc("qubits", "Qubit", N, NoPanic(num_bits))

formal == BuilderAlloc("formal", "FormalParameter", 1, NoPanic(num_formals))

formals(N) ==
    BuilderAlloc("formals", "FormalParameter", N, NoPanic(num_formals))

bit == BuilderAlloc("bit", "Bit", 1, NoPanic(num_bits))

bits(N) == BuilderAlloc("bits", "Bit", N, NoPanic(num_bits))

\* CircuitBuilder::set_num_ancillas
set_num_ancillas(n) ==
    LET diff == Sub(MAX("Qubit"), num_qubits, U32_MAX)
        ok   == n < diff.val
    IN  /\ phase = "building"
        /\ calls < MaxCalls
        /\ Return("set_num_ancillas", "Ancilla", n, diff.panic, ok,
                  IF ok THEN [ Counters EXCEPT !.num_ancillas = n ]
                        ELSE Counters,
                  << >>, << >>)

\* the ancilla counts set_num_ancillas is called with
AncillaCounts == { 1, MAX("Qubit") - 1 }

----------------------------------------------------------------------------
(* operation.rs: Arity and the catalog of operations! *)

\* Arity::variadic(): Self(u32::MAX)
variadic == U32_MAX

is_variadic(arity) == arity = U32_MAX

is_definite(arity) == ~is_variadic(arity)

Ops == { "Nop", "H", "Compute" }

\* the wire tag of an operation kind: Nop = 0, H = 1, Compute = 100
OpTag(op) ==
    CASE op = "Nop" -> 0
      [] op = "H" -> 1
      [] op = "Compute" -> 100

\* OpKind::qubits
OpKind_qubits(op) ==
    CASE op = "Nop" -> 0
      [] op = "H" -> 1
      [] op = "Compute" -> 0

\* OpKind::bits
OpKind_bits(op) ==
    CASE op = "Nop" -> 0
      [] op = "H" -> 0
      [] op = "Compute" -> variadic

\* a catalog whose Nop takes any number of parameters
OpKind_parameters_nop_variadic(op) ==
    CASE op = "Nop" -> U32_MAX
      [] op = "H" -> 0
      [] op = "Compute" -> 0

\* OpKind::parameters
OpKind_parameters(op) ==
    CASE op = "Nop" -> 0
      [] op = "H" -> 0
      [] op = "Compute" -> 0

----------------------------------------------------------------------------
(* instruction.rs: the catalog of modifiers! *)

Modifiers ==
    { "IfBit", "IfCompute", "WhileBit", "WhileCompute", "ForConst",
      "ForCompute" }

\* the wire tag of a modifier
ModTag(name) ==
    CASE name = "IfBit" -> 0
      [] name = "IfCompute" -> 1
      [] name = "WhileBit" -> 2
      [] name = "WhileCompute" -> 3
      [] name = "ForConst" -> 4
      [] name = "ForCompute" -> 5

\* the modifiers whose payload is a Compute (the others hold one word: a Bit
\* or a u32)
HasComputePayload(name) ==
    name \in { "IfCompute", "WhileCompute", "ForCompute" }

NoModifier == [ name |-> "None" ]
NoPayload == << >>

\* InstrFlags::HAS_MODIFIER
HAS_MODIFIER == 1

\* number of values of a u16, half of the header word
U16_RANGE == 65536

----------------------------------------------------------------------------
(* storage.rs: writing.  A value is written as the words of its memory     *)
(* representation; the destination grows at its end.                       *)

\* the word a (InstrFlags, u16) tuple is transmuted to, in the field order
\* the compiler chose
HeaderWord(flags, tag) ==
    IF layout = "flags_first"
    THEN flags + U16_RANGE * tag
    ELSE tag + U16_RANGE * flags

\* Compute::write: the length, the bits, the function pointer
Compute_write(c) == << Len(c.bits) >> \o c.bits \o c.func

\* OpKind::write: the header word, then the payload of the kind if any
OpKind_write(op, payload, flags) ==
    << HeaderWord(flags, OpTag(op)) >>
        \o (IF op = "Compute" THEN Compute_write(payload) ELSE << >>)

\* Modifier::write: the tag, then the payload.  For IfBit, WhileBit and
\* ForConst the macro passes `inner`, bound by reference in `match self`,
\* to storage::write: the words written are those of the reference, the
\* address `addr` of the payload, not those of the payload.
Modifier_write(m, addr) ==
    << ModTag(m.name) >>
        \o (IF HasComputePayload(m.name) THEN Compute_write(m.inner)
                                         ELSE addr)

\* write_slices! that writes the length of every class
write_slices_len(arity, slice) == << Len(slice) >> \o slice

\* write_slices!: one operand class
write_slices(arity, slice) ==
    (IF is_variadic(arity) THEN << Len(slice) >> ELSE << >>) \o slice

\* Instr::write: the words appended to the destination
Instr_write(i, addr) ==
    LET flags == IF i.modifier # NoModifier THEN HAS_MODIFIER ELSE 0
    IN  OpKind_write(i.op, i.payload, flags)
            \o write_slices(OpKind_qubits(i.op), i.qubits)
            \o write_slices(OpKind_bits(i.op), i.bits)
            \o write_slices(OpKind_parameters(i.op), i.parameters)
            \o (IF i.modifier # NoModifier
                THEN Modifier_write(i.modifier, addr) ELSE << >>)

----------------------------------------------------------------------------
(* storage.rs: reading.  A read returns the value and the rest of the      *)
(* source, or panics.                                                      *)

Panicked == [ ok |-> FALSE ]

Read(v, rest) == [ ok |-> TRUE, val |-> v, rest |-> rest ]

\* storage::read of a type of one word: read_word
read_word(s) ==
    IF Len(s) = 0 THEN Panicked ELSE Read(Head(s), Tail(s))

\* storage::read of a type of n words (n = 1 or 2): the words themselves
read_words(s, n) ==
    IF Len(s) < n THEN Panicked
    ELSE Read(SubSeq(s, 1, n), SubSeq(s, n + 1, Len(s)))

\* read_slice that returns the words left when the source is too short
read_slice_lenient(s, len) ==
    IF len > Len(s) THEN Read(s, << >>)
    ELSE Read(SubSeq(s, 1, len), SubSeq(s, len + 1, Len(s)))

\* storage::read_slice: src.split_at(len)
read_slice(s, len) ==
    IF len > Len(s) THEN Panicked
    ELSE Read(SubSeq(s, 1, len), SubSeq(s, len + 1, Len(s)))

\* the (InstrFlags, u16) tuple a header word is transmuted to
ReadHeader(w) ==
    IF layout = "flags_first"
    THEN [ flags |-> w % U16_RANGE, id |-> w \div U16_RANGE ]
    ELSE [ flags |-> w \div U16_RANGE, id |-> w % U16_RANGE ]

\* Compute::read
Compute_read(s) ==
    LET len == read_word(s)
    IN  IF ~len.ok THEN Panicked ELSE
        LET b == read_slice(len.rest, len.val)
        IN  IF ~b.ok THEN Panicked ELSE
            LET f == read_words(b.rest, ptrWords)
            IN  IF ~f.ok THEN Panicked
                ELSE Read([ bits |-> b.val, func |-> f.val ], f.rest)

\* OpKind::read: the kind, its payload and the flags
OpKind_read(s) ==
    LET w == read_word(s)
    IN  IF ~w.ok THEN Panicked ELSE
        LET h == ReadHeader(w.val)
            kind(op, payload, rest) ==
                Read([ op |-> op, payload |-> payload, flags |-> h.flags ],
                     rest)
        IN  CASE h.id = 0 -> kind("Nop", NoPayload, w.rest)
              [] h.id = 1 -> kind("H", NoPayload, w.rest)
              [] h.id = 100 ->
                    LET c == Compute_read(w.rest)
                    IN  IF ~c.ok THEN Panicked
                        ELSE kind("Compute", c.val, c.rest)
              [] OTHER -> Panicked

\* Modifier::read
Modifier_read(s) ==
    LET t == read_word(s)
        one(name, rest) ==
            LET w == read_word(rest)
            IN  IF ~w.ok THEN Panicked
                ELSE Read([ name |-> name, inner |-> w.val ], w.rest)
        compute(name, rest) ==
            LET c == Compute_read(rest)
            IN  IF ~c.ok THEN Panicked
                ELSE Read([ name |-> name, inner |-> c.val ], c.rest)
    IN  IF ~t.ok THEN Panicked ELSE
        CASE t.val = 0 -> one("IfBit", t.rest)
          [] t.val = 1 -> compute("IfCompute", t.rest)
          [] t.val = 2 -> one("WhileBit", t.rest)
          [] t.val = 3 -> compute("WhileCompute", t.rest)
          [] t.val = 4 -> one("ForConst", t.rest)
          [] t.val = 5 -> compute("ForCompute", t.rest)
          [] OTHER -> Panicked

\* read_slices!: one operand class
read_slices(arity, s) ==
    LET len == IF is_definite(arity) THEN Read(arity, s) ELSE read_word(s)
    IN  IF ~len.ok THEN Panicked ELSE read_slice(len.rest, len.val)

\* Instr::read: the instruction and the rest of the source
Instr_read(s) ==
    LET o == OpKind_read(s)
    IN  IF ~o.ok THEN Panicked ELSE
        LET q == read_slices(OpKind_qubits(o.val.op), o.rest)
        IN  IF ~q.ok THEN Panicked ELSE
            LET b == read_slices(OpKind_bits(o.val.op), q.rest)
            IN  IF ~b.ok THEN Panicked ELSE
                LET p == read_slices(OpKind_parameters(o.val.op), b.rest)
                IN  IF ~p.ok THEN Panicked ELSE
                    LET m == IF o.val.flags % 2 = HAS_MODIFIER
                             THEN Modifier_read(p.rest)
                             ELSE Read(NoModifier, p.rest)
                    IN  IF ~m.ok THEN Panicked
                        ELSE Read([ op |-> o.val.op,
                                    payload |-> o.val.payload,
                                    qubits |-> q.val, bits |-> b.val,
                                    parameters |-> p.val,
                                    modifier |-> m.val ], m.rest)

\* Instr::default()
DefaultInstr ==
    [ op |-> "Nop", payload |-> NoPayload, qubits |-> << >>, bits |-> << >>,
      parameters |-> << >>, modifier |-> NoModifier ]

----------------------------------------------------------------------------
(* Inputs of the codec *)

\* a pointer as the words of its representation
Pointer(lo, hi) == IF ptrWords = 1 THEN << lo >> ELSE << lo, hi >>

\* addresses of functions fn(BitSet) -> T
FnPtrs == { Pointer(4096, 0), Pointer(8192, 21845) }

\* addresses a modifier payload can live at while its instruction is written
Addrs == { Pointer(16, 0), Pointer(24, 32766) }

Computes == { [ bits |-> b, func |-> f ] : b \in { << >>, << 0, 1 >> },
                                           f \in FnPtrs }

ModifierValues ==
    { NoModifier }
        \cup { [ name |-> n, inner |-> w ] : n \in { "IfBit", "WhileBit" },
                                            w \in { 0, 2 } }
        \cup { [ name |-> "ForConst", inner |-> 3 ] }
        \cup { [ name |-> n, inner |-> c ] :
                   n \in { "IfCompute", "WhileCompute", "ForCompute" },
                   c \in Computes }

Instr(op, payload, q, b, p, m) ==
    [ op |-> op, payload |-> payload, qubits |-> q, bits |-> b,
      parameters |-> p, modifier |-> m ]

\* the bit pattern of f32::INFINITY, the box of a formal parameter
INFINITY_BITS == 2139095040

\* instructions whose operand counts match the declared arities
ArityInstrs ==
    { Instr("Nop", NoPayload, << >>, << >>, << >>, m) : m \in ModifierValues }
        \cup { Instr("H", NoPayload, q, << >>, << >>, m) :
                   q \in { << 0 >>, << 1 >> }, m \in ModifierValues }
        \cup { Instr("Compute", c, << >>, b, << >>, m) :
                   c \in Computes, b \in { << >>, << 2 >>, << 0, 1, 2 >> },
                   m \in ModifierValues }

\* instructions whose operand counts do not match them
OtherInstrs ==
    { Instr("Nop", NoPayload, << 0 >>, << >>, << >>, NoModifier),
      Instr("H", NoPayload, << >>, << >>, << >>, NoModifier),
      Instr("H", NoPayload, << 0, 1 >>, << >>, << >>, NoModifier),
      Instr("Nop", NoPayload, << >>, << >>, << INFINITY_BITS >>, NoModifier) }

Instrs == ArityInstrs \cup OtherInstrs

\* the instructions that follow the first one of a buffer
SeqInstrs ==
    { Instr("Nop", NoPayload, << >>, << >>, << >>, NoModifier),
      Instr("H", NoPayload, << 0 >>, << >>, << >>, NoModifier),
      Instr("H", NoPayload, << 1 >>, << >>, << >>,
            [ name |-> "IfBit", inner |-> 2 ]),
      Instr("Compute", [ bits |-> << 0, 1 >>, func |-> Pointer(4096, 0) ],
            << >>, << 0, 1, 2 >>, << >>, NoModifier),
      Instr("Nop", NoPayload, << >>, << >>, << >>,
            [ name |-> "ForCompute",
              inner |-> [ bits |-> << >>, func |-> Pointer(8192, 21845) ] ]) }

\* the instructions appended between allocations
SessionInstrs ==
    { Instr("Nop", NoPayload, << >>, << >>, << >>, NoModifier),
      Instr("H", NoPayload, << 0 >>, << >>, << >>, NoModifier) }

\* an instruction respects the arity its op declares for every class
ArityOk(i) ==
    /\ is_definite(OpKind_qubits(i.op)) => Len(i.qubits) = OpKind_qubits(i.op)
    /\ is_definite(OpKind_bits(i.op)) => Len(i.bits) = OpKind_bits(i.op)
    /\ is_definite(OpKind_parameters(i.op))
           => Len(i.parameters) = OpKind_parameters(i.op)

\* the addresses that matter to the encoding of an instruction
AddrsOf(i) ==
    IF i.modifier # NoModifier /\ ~HasComputePayload(i.modifier.name)
    THEN Addrs ELSE { Pointer(16, 0) }

----------------------------------------------------------------------------
(* instruction.rs: InstrVec and InstrIter *)

\* InstrVec::append: instruction.write(&mut self.data)
append(i, addr) ==
    LET words == Instr_write(i, addr)
    IN  /\ phase = "building"
        /\ data' = data \o words
        /\ appended' = Append(appended, [ instr |-> i, words |-> Len(words) ])
        /\ last' = [ op |-> "append", kind |-> "Instr", n |-> 1,
                     pre |-> Counters, preData |-> data, ok |-> TRUE,
                     panic |-> FALSE, handles |-> << >>, range |-> << >> ]
        /\ calls' = calls + 1
        /\ UNCHANGED << targetVars, phase, num_qubits, num_bits, num_formals,
                        num_ancillas, circ, issued, src, instr, yielded,
                        consumed, session, returned >>

\* an append among the allocations of a session
AppendCall ==
    /\ calls < MaxCalls
    /\ \E i \in SessionInstrs : \E addr \in AddrsOf(i) : append(i, addr)

\* an append to a buffer of instructions
AppendInstr ==
    /\ Len(appended) < MaxInstrs
    /\ \E i \in (IF appended = << >> THEN Instrs ELSE SeqInstrs) :
           \E addr \in AddrsOf(i) : append(i, addr)

\* a call on the buffer of the builder that leaves it holding `words`, the
\* encoding of the instructions `instrs`
BufferCall(op, words, instrs) ==
    /\ phase = "building"
    /\ calls < MaxCalls
    /\ data' = words
    /\ appended' = instrs
    /\ last' = [ op |-> op, kind |-> "Instr", n |-> Len(instrs),
                 pre |-> Counters, preData |-> data, ok |-> TRUE,
                 panic |-> FALSE, handles |-> << >>, range |-> << >> ]
    /\ calls' = calls + 1
    /\ UNCHANGED << targetVars, phase, num_qubits, num_bits, num_formals,
                    num_ancillas, circ, issued, src, instr, yielded,
                    consumed, session, returned >>

\* InstrVec::default() and InstrVec::clone(): the vectors of the brand of
\* the builder that a closure can make, an empty one with one instruction
\* appended and a copy of the buffer of the builder
InstrVecs ==
    { [ data |-> Instr_write(i, Pointer(16, 0)),
        appended |-> << [ instr |-> i,
                          words |-> Len(Instr_write(i, Pointer(16, 0))) ] >> ] :
          i \in SessionInstrs }
        \cup { [ data |-> data, appended |-> appended ] }

\* InstrVec::extend: self.data.extend(&instructions.data)
extend(instructions) ==
    BufferCall("extend", data \o instructions.data,
               appended \o instructions.appended)

\* InstrVec::clear: self.data.clear()
clear == BufferCall("clear", << >>, << >>)

None == [ none |-> TRUE ]

\* InstrVec::iter on the buffer of the finalized circuit: InstrIter::new
iter ==
    /\ phase = "circuit"
    /\ phase' = "iterating"
    /\ src' = circ.data
    /\ instr' = DefaultInstr
    /\ yielded' = << >>
    /\ consumed' = 0
    /\ UNCHANGED << targetVars, builderVars, circ, last, issued, calls,
                    appended, session, returned >>

\* InstrIter::next
next ==
    /\ phase = "iterating"
    /\ IF src = << >>
       THEN /\ yielded' = Append(yielded, None)
            /\ phase' = "drained"
            /\ UNCHANGED << src, instr, consumed >>
       ELSE LET r == Instr_read(src)
            IN  IF r.ok
                THEN /\ instr' = r.val
                     /\ src' = r.rest
                     /\ yielded' = Append(yielded, r.val)
                     /\ consumed' = Len(src) - Len(r.rest)
                     /\ phase' = phase
                ELSE /\ phase' = "panicked"
                     /\ UNCHANGED << src, instr, yielded, consumed >>
    /\ UNCHANGED << targetVars, builderVars, circ, last, issued, calls,
                    appended, session, returned >>

----------------------------------------------------------------------------
(* circuit.rs: QuantumCircuit::new / edit, CircuitBuilder::from_circ /     *)
(* into_circ                                                               *)

\* QuantumCircuit::default()
DefaultCircuit ==
    [ num_qubits |-> 0, num_bits |-> 0, num_formals |-> 0,
      num_ancillas |-> 0, data |-> << >> ]

\* from_circ that forgets the ancillas of the circuit
from_circ_no_ancillas(c) ==
    /\ num_qubits' = c.num_qubits
    /\ num_ancillas' = 0
    /\ num_bits' = c.num_bits
    /\ num_formals' = c.num_formals
    /\ data' = c.data

\* CircuitBuilder::from_circ
from_circ(c) ==
    /\ num_qubits' = c.num_qubits
    /\ num_ancillas' = c.num_ancillas
    /\ num_bits' = c.num_bits
    /\ num_formals' = c.num_formals
    /\ data' = c.data

\* into_circ that leaves the buffer behind
into_circ_no_data ==
    [ num_qubits |-> num_qubits, num_bits |-> num_bits,
      num_formals |-> num_formals, num_ancillas |-> num_ancillas,
      data |-> << >> ]

\* CircuitBuilder::into_circ
into_circ ==
    [ num_qubits |-> num_qubits, num_bits |-> num_bits,
      num_formals |-> num_formals, num_ancillas |-> num_ancillas,
      data |-> data ]

\* QuantumCircuit::new(init): Self::default().edit(init), up to the call of
\* the closure
new ==
    /\ phase = "none"
    /\ phase' = "building"
    /\ from_circ(DefaultCircuit)
    /\ circ' = NoCircuit
    /\ last' = Opened(DefaultCircuit)
    /\ issued' = [ k \in Kinds |-> {} ]
    /\ calls' = 0
    /\ appended' = << >>
    /\ session' = [ op |-> "new" ]
    /\ returned' = NoReturn
    /\ UNCHANGED << targetVars, src, instr, yielded, consumed >>

\* QuantumCircuit::edit(self, edit), up to the call of the closure
edit ==
    /\ phase = "circuit"
    /\ phase' = "building"
    /\ from_circ(circ)
    /\ circ' = NoCircuit
    /\ last' = Opened(circ)
    /\ session' = [ op |-> "edit" ]
    /\ returned' = NoReturn
    /\ UNCHANGED << targetVars, issued, calls, codecVars >>

\* the builder is gone once the closure has returned
DropBuilder ==
    /\ num_qubits' = 0
    /\ num_bits' = 0
    /\ num_formals' = 0
    /\ num_ancillas' = 0
    /\ data' = << >>

\* the closure returns Ok(()): .map(|_| builder.into_circ())
ok_return ==
    /\ phase = "building"
    /\ phase' = "circuit"
    /\ circ' = into_circ
    /\ DropBuilder
    /\ last' = NoCall
    /\ UNCHANGED << targetVars, issued, calls, codecVars, session, returned >>

\* the closure returns Err(e): edit returns Err(e), the circuit is consumed
err_return ==
    /\ phase = "building"
    /\ phase' = "none"
    /\ circ' = NoCircuit
    /\ DropBuilder
    /\ last' = NoCall
    /\ UNCHANGED << targetVars, issued, calls, codecVars, session, returned >>

----------------------------------------------------------------------------
(* circuit.rs: QuantumCircuit::bind, is_concrete, as_concrete and          *)
(* TryFrom<QuantumCircuit> for ConcreteCircuit                             *)

\* ConcreteCircuit::new(circ)
ConcreteCircuit(c) == [ circ |-> c ]

\* a call on the finalized circuit returns `val`; a call that takes the
\* circuit by value leaves none behind
CircuitCall(op, arg, val, consumes) ==
    /\ phase = "circuit"
    /\ returned' = [ op |-> op, of |-> circ, arg |-> arg, val |-> val,
                     panic |-> FALSE ]
    /\ IF consumes
       THEN /\ phase' = "none"
            /\ circ' = NoCircuit
       ELSE UNCHANGED << phase, circ >>
    /\ UNCHANGED << targetVars, builderVars, last, issued, calls, codecVars,
                    session >>

\* QuantumCircuit::bind(self, parameters):
\*     (parameters.len() == self.num_formals()).then(|| todo!())
bind(parameters) ==
    /\ phase = "circuit"
    /\ IF Len(parameters) = circ.num_formals
       THEN /\ phase' = "panicked"
            /\ returned' = [ op |-> "bind", of |-> circ, arg |-> parameters,
                             val |-> None, panic |-> TRUE ]
            /\ UNCHANGED << targetVars, builderVars, circ, last, issued,
                            calls, codecVars, session >>
       ELSE CircuitCall("bind", parameters, None, TRUE)

\* the slices bind is called with
BindParameters == { << >>, << 1 >>, << 1, 2 >> }

\* is_concrete that looks at the count of another kind
is_concrete_bits(c) == c.num_bits = 0

\* QuantumCircuit::is_concrete(&self): self.num_formals() == 0
is_concrete(c) == c.num_formals = 0

\* TryFrom<QuantumCircuit> for ConcreteCircuit:
\*     circ.is_concrete().then(|| ConcreteCircuit::new(circ))
\*         .ok_or(NotConcreteError)
try_from(c) ==
    IF is_concrete(c)
    THEN [ ok |-> TRUE, val |-> ConcreteCircuit(c) ]
    ELSE [ ok |-> FALSE, err |-> "NotConcreteError" ]

\* QuantumCircuit::as_concrete(self): self.try_into().ok()
as_concrete(c) ==
    LET r == try_from(c) IN IF r.ok THEN r.val ELSE None

\* the three calls, made on the finalized circuit
IsConcrete == CircuitCall("is_concrete", << >>, is_concrete(circ), FALSE)
AsConcrete == CircuitCall("as_concrete", << >>, as_concrete(circ), TRUE)
TryFrom == CircuitCall("try_from", << >>, try_from(circ), TRUE)

----------------------------------------------------------------------------
(* symbol.rs: List<T>, a range start..end of handle indices, and            *)
(* SymbolIter<T>                                                           *)

Some(x) == [ some |-> x ]

\* List::from_range_unchecked(range): List::from_range(range)
from_range_unchecked(range) == range

\* List::new(start, end):
\*     (start <= end).then(|| List::from_range(start.id()..end.id() + 1))
List_new(start, end) ==
    IF start <= end
    THEN LET e == Add(end, 1, U32_MAX)
         IN  [ panic |-> e.panic, val |-> Some(<< start, e.val >>) ]
    ELSE [ panic |-> FALSE, val |-> None ]

\* From<T> for List<T>: Self::from_range(sym.id()..sym.id() + 1)
List_from(sym) ==
    LET e == Add(sym, 1, U32_MAX)
    IN  [ panic |-> e.panic, val |-> << sym, e.val >> ]

\* List::len: (self.range.end - self.range.start) as usize
List_len(r) == Sub(r[2], r[1], U32_MAX)

\* get that also accepts the index len()
List_get_inclusive(r, n) ==
    LET len == List_len(r)
        id  == Add(n % (U32_MAX + 1), r[1], U32_MAX)
    IN  IF len.panic THEN [ panic |-> TRUE, val |-> None ]
        ELSE IF n <= len.val
             THEN [ panic |-> id.panic, val |-> Some(id.val) ]
             ELSE [ panic |-> FALSE, val |-> None ]

\* List::get(n):
\*     (n < self.len()).then(|| T::new_unchecked(n as u32 + self.range.start))
List_get(r, n) ==
    LET len == List_len(r)
        id  == Add(n % (U32_MAX + 1), r[1], U32_MAX)
    IN  IF len.panic THEN [ panic |-> TRUE, val |-> None ]
        ELSE IF n < len.val
             THEN [ panic |-> id.panic, val |-> Some(id.val) ]
             ELSE [ panic |-> FALSE, val |-> None ]

\* List::contains(symbol): self.range.contains(&symbol.id())
List_contains(r, id) == r[1] <= id /\ id < r[2]

\* SymbolIter::next: self.inner.range.next().map(T::new_unchecked)
SymbolIter_next(inner) ==
    IF inner[1] < inner[2]
    THEN [ val |-> Some(inner[1]), inner |-> << inner[1] + 1, inner[2] >> ]
    ELSE [ val |-> None, inner |-> inner ]

\* a call of the List API: on the list `of`, with the argument `arg`, it
\* returns `val` or panics
ListCall(op, of, arg, r) ==
    /\ phase = "none"
    /\ returned' = [ op |-> op, of |-> of, arg |-> arg, val |-> r.val,
                     panic |-> r.panic ]
    /\ UNCHANGED << targetVars, phase, builderVars, circ, last, issued,
                    calls, codecVars, session >>

\* the list a call is made on: the one the last call made or was made on
HasList == returned.op # "none" /\ returned.of # None

\* the indices of the handles lists are made of: the first ones and the
\* last ones a kind can hand out
ListIds == { 0, 1, 2, U32_MAX - 3, U32_MAX - 2 }

\* the indices List::get is called with
GetIndices == { 0, 1, 2, 3, U32_MAX - 2, U32_MAX, U32_MAX + 1 }

ListNew(start, end) ==
    LET r == List_new(start, end)
    IN  ListCall("new", IF r.val = None THEN None ELSE r.val.some,
                 << start, end >>, r)

ListFrom(sym) ==
    LET r == List_from(sym) IN ListCall("from", r.val, sym, r)

FromRangeUnchecked(range) ==
    ListCall("from_range_unchecked", from_range_unchecked(range), range,
             [ panic |-> FALSE, val |-> from_range_unchecked(range) ])

ListLen ==
    /\ HasList
    /\ ListCall("len", returned.of, << >>, List_len(returned.of))

ListGet(n) ==
    /\ HasList
    /\ n <= USIZE_MAX
    /\ ListCall("get", returned.of, n, List_get(returned.of, n))

ListContains(sym) ==
    /\ HasList
    /\ ListCall("contains", returned.of, sym,
                [ panic |-> FALSE, val |-> List_contains(returned.of, sym) ])

\* List::iter: SymbolIter { inner: self.clone() }; val is what next has
\* returned so far, arg the range left in the iterator
ListIter ==
    /\ HasList
    /\ ListCall("iter", returned.of, returned.of,
                [ panic |-> FALSE, val |-> << >> ])

ListIterNext ==
    /\ HasList
    /\ returned.op = "iter"
    /\ IF returned.val = << >> THEN TRUE
       ELSE returned.val[Len(returned.val)] # None
    /\ LET r == SymbolIter_next(returned.arg)
       IN  ListCall("iter", returned.of, r.inner,
                    [ panic |-> FALSE, val |-> Append(returned.val, r.val) ])

----------------------------------------------------------------------------
(* parameter.rs: Parameter, an f32 or a formal parameter boxed in the bits  *)
(* of a non-finite f32.  An f32 is a sign bit, exponent bits and            *)
(* MANTISSA_DIGITS - 1 fraction bits; the model keeps this layout in a word *)
(* of U32Bits bits.                                                         *)

RECURSIVE BitAnd(_, _)
BitAnd(a, b) ==
    IF a = 0 \/ b = 0 THEN 0
    ELSE (a % 2) * (b % 2) + 2 * BitAnd(a \div 2, b \div 2)

RECURSIVE BitOr(_, _)
BitOr(a, b) ==
    IF a = 0 THEN b
    ELSE IF b = 0 THEN a
    ELSE (IF a % 2 = 1 \/ b % 2 = 1 THEN 1 ELSE 0)
             + 2 * BitOr(a \div 2, b \div 2)

FractionBits == MANTISSA_DIGITS - 1
ExponentBits == U32Bits - 1 - FractionBits

\* f32::INFINITY.to_bits(): sign 0, exponent all ones, fraction 0
INFINITY_to_bits == (Pow2(ExponentBits) - 1) * Pow2(FractionBits)

\* f32::from_bits(bits).is_finite(): the exponent is not all ones
is_finite(word) ==
    (word \div Pow2(FractionBits)) % Pow2(ExponentBits)
        # Pow2(ExponentBits) - 1

\* Parameter::is_value / is_formal
is_value(word) == is_finite(word)
is_formal(word) == ~is_value(word)

\* From<FormalParameter> for Parameter:
\*     Self::new(u32::from(formal.id()) | f32::INFINITY.to_bits())
Parameter_from_formal(id) == BitOr(id, INFINITY_to_bits)

\* const MANTISSA_MASK: u32 = (1 << f32::MANTISSA_DIGITS) - 1
MANTISSA_MASK == Pow2(MANTISSA_DIGITS) - 1

\* TryFrom<Parameter> for FormalParameter:
\*     param.is_formal()
\*         .then(|| Self::new_unchecked(param.bits & MANTISSA_MASK))
\*         .ok_or(NotFormal)
FormalParameter_try_from(word) ==
    IF is_formal(word)
    THEN [ ok |-> TRUE, val |-> BitAnd(word, MANTISSA_MASK) ]
    ELSE [ ok |-> FALSE, err |-> "NotFormal" ]

\* Parameter::as_formal: self.try_into().ok()
as_formal(word) ==
    LET r == FormalParameter_try_from(word)
    IN  IF r.ok THEN Some(r.val) ELSE None

\* a call of the Parameter API: on the parameter of bits `of`, boxed from
\* `arg`, it returns `val`
ParameterCall(op, of, arg, val) ==
    /\ phase = "none"
    /\ returned' = [ op |-> op, of |-> of, arg |-> arg, val |-> val,
                     panic |-> FALSE ]
    /\ UNCHANGED << targetVars, phase, builderVars, circ, last, issued,
                    calls, codecVars, session >>

HasParameter == returned.op # "none"

\* the indices the allocator can hand out to formal parameters
FormalIds == 0..(MAX("FormalParameter") - 1)

FromFormal(id) ==
    ParameterCall("from_formal", Parameter_from_formal(id),
                  [ formal |-> id ], Parameter_from_formal(id))

IsValue ==
    /\ HasParameter
    /\ ParameterCall("is_value", returned.of, returned.arg,
                     is_value(returned.of))

IsFormal ==
    /\ HasParameter
    /\ ParameterCall("is_formal", returned.of, returned.arg,
                     is_formal(returned.of))

AsFormal ==
    /\ HasParameter
    /\ ParameterCall("as_formal", returned.of, returned.arg,
                     as_formal(returned.of))

----------------------------------------------------------------------------
(* parameter.rs: From<f32>, as_value and PartialEq for Parameter            *)

\* the bias of the exponent of an f32
ExponentBias == Pow2(ExponentBits - 1) - 1

\* the denominator the finite f32 values are written over in F32Value
F32Denominator == Pow2(FractionBits + ExponentBias - 1)

\* f32::from_bits(word) of a finite word, as a numerator over
\* F32Denominator: a sign, and a subnormal 0.f * 2^(1 - bias) or a normal
\* 1.f * 2^(e - bias)
F32Value(word) ==
    LET f == word % Pow2(FractionBits)
        e == (word \div Pow2(FractionBits)) % Pow2(ExponentBits)
        s == word \div Pow2(FractionBits + ExponentBits)
        m == IF e = 0 THEN f ELSE Pow2(e - 1) * (Pow2(FractionBits) + f)
    IN  IF s = 1 THEN 0 - m ELSE m

\* From<f32> for Parameter: a value that is not finite becomes 0.0
Parameter_from_f32(value) == IF is_finite(value) THEN value ELSE 0

\* TryFrom<Parameter> for f32 and Parameter::as_value
as_value(word) == IF is_value(word) THEN Some(F32Value(word)) ELSE None

\* Parameter::PRECISION = 1E-5, as 1 / PRECISION_INV
PRECISION_INV == 100000

\* PartialEq for Parameter:
\*     match (self.as_value(), rhs.as_value()) {
\*         (Some(x), Some(y)) => (x - y).abs() < Self::PRECISION,
\*         (None, None) => self.bits == rhs.bits,
\*         _ => false }
Parameter_eq(self, rhs) ==
    LET x == as_value(self)
        y == as_value(rhs)
        d == IF x # None /\ y # None THEN x.some - y.some ELSE 0
    IN  IF x # None /\ y # None
        THEN (IF d < 0 THEN 0 - d ELSE d) * PRECISION_INV < F32Denominator
        ELSE IF x = None /\ y = None THEN self = rhs
        ELSE FALSE

\* the bit patterns of the f32 values parameters are made from
F32Words == 0..U32_MAX

\* what a parameter is made from: a formal parameter or an f32
ParameterSources ==
    { [ formal |-> id ] : id \in FormalIds }
        \cup { [ value |-> w ] : w \in F32Words }

\* Parameter::from(source)
Parameter_from(source) ==
    IF "formal" \in DOMAIN source THEN Parameter_from_formal(source.formal)
    ELSE Parameter_from_f32(source.value)

FromF32(value) ==
    ParameterCall("from_f32", Parameter_from_f32(value), [ value |-> value ],
                  Parameter_from_f32(value))

\* lhs == Parameter::from(rhs) on the parameter made last
ParameterEq(rhs) ==
    /\ HasParameter
    /\ returned.op \in { "from_formal", "from_f32" }
    /\ ParameterCall("eq", returned.of,
                     [ lhs |-> returned.arg, rhs |-> rhs ],
                     Parameter_eq(returned.of, Parameter_from(rhs)))

----------------------------------------------------------------------------
(* instruction.rs: Instr::is_concrete, and instructions whose parameters    *)
(* are made of the formal parameters of the builder                        *)

\* Instr::is_concrete: self.parameters.iter().cloned().all(Parameter::is_value)
Instr_is_concrete(i) ==
    \A k \in 1..Len(i.parameters) : is_value(i.parameters[k])

\* the parameters an instruction of the session can hold: the formal
\* parameters the allocation calls of this circuit have returned, and values
SessionParameters ==
    { Parameter_from_formal(id) : id \in issued["FormalParameter"] }
        \cup { Parameter_from_f32(value) : value \in { 0, 1 } }

\* the instructions appended to a builder that holds formal parameters
ParameterInstrs ==
    { Instr("Nop", NoPayload, << >>, << >>, p, NoModifier) :
          p \in { << >> } \cup { << x >> : x \in SessionParameters }
                  \cup { << x, y >> : x, y \in SessionParameters } }
        \cup { Instr("H", NoPayload, << 0 >>, << >>, << >>, NoModifier) }

AppendParameters ==
    /\ calls < MaxCalls
    /\ \E i \in ParameterInstrs : append(i, Pointer(16, 0))

----------------------------------------------------------------------------
(* bitset.rs: BitSet { size, data: Box<[u8]> }.  A byte is a number below   *)
(* 256; data[k] of the program is data[k + 1] here.                        *)

\* word(index): index >> 3
BitSet_word(index) == index \div 8

\* mask(index): 1 << (index & 7)
BitSet_mask(index) == Pow2(index % 8)

\* !mask on a u8
BitSet_not(m) == 255 - m

\* BitSet::new(size): data: vec![0; word(size)]
BitSet_new(size) ==
    [ size |-> size, data |-> [ k \in 1..BitSet_word(size) |-> 0 ] ]

\* BitSet::get(index):
\*     (index < self.size).then(|| self.data[word(index)] & mask(index) == 1)
\* The index of a byte that data does not have panics.
BitSet_get(self, index) ==
    IF index < self.size
    THEN IF BitSet_word(index) >= Len(self.data)
         THEN [ panic |-> TRUE, val |-> None ]
         ELSE [ panic |-> FALSE,
                val |-> Some(BitAnd(self.data[BitSet_word(index) + 1],
                                    BitSet_mask(index)) = 1) ]
    ELSE [ panic |-> FALSE, val |-> None ]

\* BitSet::set(index, value):
\*     (index < self.size).then(|| if value { data[word(index)] |= mask(index) }
\*                                 else { data[word(index)] &= !mask(index) })
BitSet_set(self, index, value) ==
    IF index < self.size
    THEN IF BitSet_word(index) >= Len(self.data)
         THEN [ panic |-> TRUE, val |-> None, self |-> self ]
         ELSE LET k == BitSet_word(index) + 1
                  byte == IF value
                          THEN BitOr(self.data[k], BitSet_mask(index))
                          ELSE BitAnd(self.data[k],
                                      BitSet_not(BitSet_mask(index)))
              IN  [ panic |-> FALSE, val |-> Some(<< >>),
                    self |-> [ self EXCEPT !.data[k] = byte ] ]
    ELSE [ panic |-> FALSE, val |-> None, self |-> self ]

\* a call of the BitSet API: it leaves the set `of` behind, called with
\* `arg` on the set arg.pre, and returns `val` or panics
BitSetCall(op, of, arg, r) ==
    /\ phase = "none"
    /\ returned' = [ op |-> op, of |-> of, arg |-> arg, val |-> r.val,
                     panic |-> r.panic ]
    /\ UNCHANGED << targetVars, phase, builderVars, circ, last, issued,
                    calls, codecVars, session >>

\* the set a call is made on: the one the last call left, unless it panicked
HasBitSet == returned.op # "none" /\ ~returned.panic

\* the sizes sets are made with: empty, below a byte, a byte, above a byte
BitSetSizes == { 0, 1, 5, 8, 10 }

\* the indices get and set are called with
BitSetIndices == { 0, 1, 4, 7, 8, 9, 10 }

BitSetNew(size) ==
    BitSetCall("new", BitSet_new(size), [ size |-> size ],
               [ panic |-> FALSE, val |-> BitSet_new(size) ])

BitSetGet(index) ==
    /\ HasBitSet
    /\ BitSetCall("get", returned.of, [ index |-> index, pre |-> returned.of ],
                  BitSet_get(returned.of, index))

BitSetSet(index, value) ==
    /\ HasBitSet
    /\ LET r == BitSet_set(returned.of, index, value)
       IN  BitSetCall("set", r.self,
                      [ index |-> index, value |-> value, pre |-> returned.of ],
                      r)

----------------------------------------------------------------------------
(* Specifications *)

InitState ==
    /\ phase = "none"
    /\ num_qubits = 0
    /\ num_bits = 0
    /\ num_formals = 0
    /\ num_ancillas = 0
    /\ data = << >>
    /\ circ = NoCircuit
    /\ last = NoCall
    /\ issued = [ k \in Kinds |-> {} ]
    /\ calls = 0
    /\ appended = << >>
    /\ src = << >>
    /\ instr = DefaultInstr
    /\ yielded = << >>
    /\ consumed = 0
    /\ session = NoSession
    /\ returned = NoReturn

\* sessions of allocations on a debug or a release build
Init ==
    /\ build \in { "debug", "release" }
    /\ ptrWords \in { 1, 2 }
    /\ layout = "flags_first"
    /\ InitState

Next ==
    \/ new
    \/ edit
    \/ ok_return
    \/ err_return
    \/ \E k \in Kinds : alloc(k)
    \/ \E k \in Kinds : alloc_n(k, ArrayN)
    \/ \E k \in Kinds : \E len \in ListLens(k) : alloc_list(k, len)
    \/ qubit
    \/ qubits(ArrayN)
    \/ formal
    \/ formals(ArrayN)
    \/ bit
    \/ bits(ArrayN)
    \/ \E n \in AncillaCounts : set_num_ancillas(n)
    \/ AppendCall

Spec == Init /\ [][Next]_vars

\* the life of a circuit: sessions of new and edit that allocate, append to
\* the buffer, extend it and clear it, and the calls on the finalized circuit
NextCircuit ==
    \/ new
    \/ edit
    \/ ok_return
    \/ err_return
    \/ \E k \in Kinds : alloc(k)
    \/ \E n \in AncillaCounts : set_num_ancillas(n)
    \/ AppendCall
    \/ \E instructions \in InstrVecs : extend(instructions)
    \/ clear
    \/ \E parameters \in BindParameters : bind(parameters)
    \/ IsConcrete
    \/ AsConcrete
    \/ TryFrom

SpecCircuit == Init /\ [][NextCircuit]_vars

\* sessions that allocate single handles, lists and tuples of handles
NextTuple ==
    \/ new
    \/ edit
    \/ ok_return
    \/ err_return
    \/ \E k \in Kinds : alloc(k)
    \/ \E k \in Kinds : \E len \in ListLens(k) : alloc_list(k, len)
    \/ \E T \in TupleTypes : alloc_tuple(T)

SpecTuple == Init /\ [][NextTuple]_vars

\* buffers of instructions, written and then decoded
InitCodec ==
    /\ build = "debug"
    /\ ptrWords \in { 1, 2 }
    /\ layout \in { "flags_first", "tag_first" }
    /\ InitState

NextCodec ==
    \/ new
    \/ edit
    \/ ok_return
    \/ AppendInstr
    \/ iter
    \/ next

SpecCodec == InitCodec /\ [][NextCodec]_vars

\* the instruction i written with its modifier payload at addr, as append
\* records it
Appended(i, addr) ==
    [ instr |-> i, words |-> Len(Instr_write(i, addr)) ]

\* InstrVec::iter on the buffer of a circuit that one or two appends of
\* instructions respecting their arities have made
InitIterate ==
    /\ build = "debug"
    /\ ptrWords \in { 1, 2 }
    /\ layout \in { "flags_first", "tag_first" }
    /\ phase = "iterating"
    /\ num_qubits = 0
    /\ num_bits = 0
    /\ num_formals = 0
    /\ num_ancillas = 0
    /\ data = << >>
    /\ last = NoCall
    /\ issued = [ k \in Kinds |-> {} ]
    /\ \E i \in ArityInstrs : \E a \in AddrsOf(i) :
           \E then \in { << >> } \cup { << j, b >> : j \in SeqInstrs, b \in Addrs } :
               LET second == IF then = << >> THEN << >>
                             ELSE Instr_write(then[1], then[2])
                   words  == Instr_write(i, a) \o second
               IN  /\ appended = << Appended(i, a) >>
                                     \o (IF then = << >> THEN << >>
                                         ELSE << Appended(then[1], then[2]) >>)
                   /\ calls = Len(appended)
                   /\ circ = [ DefaultCircuit EXCEPT !.data = words ]
                   /\ src = words
    /\ instr = DefaultInstr
    /\ yielded = << >>
    /\ consumed = 0
    /\ session = [ op |-> "new" ]
    /\ returned = NoReturn

NextIterate == next

\* the caller calls next until it returns None or panics
SpecIterate == InitIterate /\ [][NextIterate]_vars

\* circuits built with formal parameters, finalized, asked whether they are
\* concrete and decoded
NextConcrete ==
    \/ new
    \/ ok_return
    \/ formal
    \/ alloc("FormalParameter")
    \/ AppendParameters
    \/ IsConcrete
    \/ iter
    \/ next

SpecConcrete == InitCodec /\ [][NextConcrete]_vars

\* the words of the buffers handed to the decoder: the headers of the ops
\* of the catalog and of an op that is not in it, with and without the
\* modifier flag, and words that are lengths and modifier tags, in range
\* and out of range
DecodeWords ==
    { HeaderWord(f, t) : f \in { 0, HAS_MODIFIER },
                         t \in { OpTag(op) : op \in Ops } \cup { 7 } }
        \cup { 0, 1, 2, 6 }

\* the sequences of at most n words
RECURSIVE Buffers(_)
Buffers(n) ==
    IF n = 0 THEN { << >> }
    ELSE LET shorter == Buffers(n - 1)
         IN  shorter \cup { Append(b, w) : b \in { c \in shorter : Len(c) = n - 1 },
                                           w \in DecodeWords }

\* InstrIter::new(src) on a buffer taken as it is
InitDecode ==
    /\ build = "debug"
    /\ ptrWords \in { 1, 2 }
    /\ layout \in { "flags_first", "tag_first" }
    /\ phase = "iterating"
    /\ num_qubits = 0
    /\ num_bits = 0
    /\ num_formals = 0
    /\ num_ancillas = 0
    /\ data = << >>
    /\ circ = NoCircuit
    /\ last = NoCall
    /\ issued = [ k \in Kinds |-> {} ]
    /\ calls = 0
    /\ appended = << >>
    /\ src \in Buffers(MaxWords)
    /\ instr = DefaultInstr
    /\ yielded = << >>
    /\ consumed = 0
    /\ session = NoSession
    /\ returned = NoReturn

NextDecode == next

SpecDecode == InitDecode /\ [][NextDecode]_vars

\* lists made by the constructors of List, then queried and iterated
NextList ==
    \/ \E start, end \in ListIds : ListNew(start, end)
    \/ \E sym \in ListIds : ListFrom(sym)
    \/ \E start, end \in ListIds \cup { U32_MAX } :
           start <= end /\ FromRangeUnchecked(<< start, end >>)
    \/ ListLen
    \/ \E n \in GetIndices : ListGet(n)
    \/ \E sym \in ListIds : ListContains(sym)
    \/ ListIter
    \/ ListIterNext

SpecList == Init /\ [][NextList]_vars

\* bit sets made by new, then written and read
NextBitSet ==
    \/ \E size \in BitSetSizes : BitSetNew(size)
    \/ \E index \in BitSetIndices : BitSetGet(index)
    \/ \E index \in BitSetIndices : \E value \in BOOLEAN :
           BitSetSet(index, value)

SpecBitSet == Init /\ [][NextBitSet]_vars

\* parameters boxed, then queried and unboxed
NextParameter ==
    \/ \E id \in FormalIds : FromFormal(id)
    \/ \E value \in F32Words : FromF32(value)
    \/ \E rhs \in ParameterSources : ParameterEq(rhs)
    \/ IsValue
    \/ IsFormal
    \/ AsFormal

SpecParameter == Init /\ [][NextParameter]_vars

----------------------------------------------------------------------------
(* Properties *)

\* the allocation calls: those of Symbol and the methods of the builder
SymbolOps == { "alloc", "alloc_n", "alloc_list" }
BuilderOps == { "qubit", "qubits", "formal", "formals", "bit", "bits" }
AllocOps == SymbolOps \cup BuilderOps

\* the builder has just returned from an allocation call
Allocated == phase = "building" /\ last.op \in AllocOps /\ ~last.panic

\* the instructions appended so far
AppendedInstrs == [ k \in 1..Len(appended) |-> appended[k].instr ]

AllArityOk == \A k \in 1..Len(appended) : ArityOk(appended[k].instr)

\* C1: round trip.  The first instruction of a buffer, when it respects the
\* arities of its op, is decoded to an equal instruction (op and payload,
\* qubits, bits, parameters, modifier), and the decoder consumes exactly the
\* words the encoder wrote for it.
C1_RoundTrip ==
    (Len(appended) >= 1 /\ ArityOk(appended[1].instr))
        => /\ ~(phase = "panicked" /\ yielded = << >>)
           /\ (phase \in { "iterating", "drained" } /\ Len(yielded) = 1)
                  => /\ yielded[1] = appended[1].instr
                     /\ consumed = appended[1].words

\* C2: a successful allocation of n handles of a kind advances the counter
\* of that kind by exactly n.
C2_AdvancesOwnCounter ==
    (Allocated /\ last.ok)
        => count(last.kind) = CountIn(last.pre, last.kind) + last.n

\* C3: an allocation call that fails with AllocOverflow leaves every counter
\* and the buffer as they were and returns no handle; alloc_n returns all N
\* handles or none.
C3_FailureIsAtomic ==
    /\ (Allocated /\ ~last.ok)
           => /\ Counters = last.pre
              /\ data = last.preData
              /\ last.handles = << >>
              /\ last.range = << >>
    /\ (Allocated /\ last.ok /\ last.op = "alloc_n")
           => Len(last.handles) = last.n

\* a failed allocation on a builder that holds handles and instructions
C3_Witness ==
    /\ Allocated
    /\ ~last.ok
    /\ last.op = "alloc_n"
    /\ CountIn(last.pre, last.kind) > 0
    /\ data # << >>

\* C4: with the counter of a kind at MAX - 1 a single allocation succeeds
\* and returns the handle of index MAX - 1; the allocation after it, with
\* the counter at MAX, fails.
C4_LastSlot ==
    (Allocated /\ last.op \in { "alloc", "qubit", "formal", "bit" })
        => /\ CountIn(last.pre, last.kind) = MAX(last.kind) - 1
                  => (last.ok /\ last.handles = << MAX(last.kind) - 1 >>)
           /\ CountIn(last.pre, last.kind) = MAX(last.kind) => ~last.ok

\* C5: a successful alloc returns the handle whose index is the counter
\* before the call; alloc_n returns the indices c, c+1, ..., c+N-1 in order;
\* alloc_list(len) returns the range [c, c+len).
C5_FreshIndices ==
    (Allocated /\ last.ok)
        => LET c == CountIn(last.pre, last.kind)
           IN  /\ last.op = "alloc" => last.handles = << c >>
               /\ last.op = "alloc_n"
                      => last.handles = Consecutive(c, last.n)
               /\ last.op = "alloc_list"
                      => last.range = << c, c + last.n >>

\* C6: handles are unique: a successful allocation call never returns an
\* index that a handle of the same kind of this circuit already has, in
\* this session or an earlier one.
C6_Unique ==
    [][ (calls' = calls + 1 /\ last'.op \in AllocOps /\ last'.ok)
            => /\ Range(last'.handles) \cap issued[last'.kind] = {}
               /\ Cardinality(Range(last'.handles)) = Len(last'.handles)
      ]_vars

\* C7: every handle returned by an allocation call has an index below the
\* counter of its kind, in the builder and in the finalized circuit.
C7_IndexBelowCount ==
    /\ phase = "building"
           => \A k \in Kinds : \A i \in issued[k] : i < count(k)
    /\ phase = "circuit"
           => \A k \in Kinds : \A i \in issued[k] : i < CountIn(circ, k)

\* C8: the counter of a kind never exceeds the maximum of the kind.
C8_CountWithinMax ==
    phase = "building" => \A k \in Kinds : count(k) <= MAX(k)

\* C9: the iteration over the buffer of a finalized session whose
\* instructions respect their arities yields these instructions in the
\* order of their appends, and then None.
C9_IterationYieldsAppended ==
    AllArityOk
        => /\ phase # "panicked"
           /\ phase = "drained" => yielded = Append(AppendedInstrs, None)

\* the words the last append wrote and the instruction it wrote them for
LastWritten == SubSeq(data, Len(last.preData) + 1, Len(data))
LastInstr == appended[Len(appended)].instr

\* C10: in the words of an instruction each operand class (qubits, bits,
\* parameters, in this order, after the header and the payload of the op)
\* is its operand words, preceded by one word holding their number if and
\* only if the op declares the class variadic; nothing but the modifier
\* follows the parameters.
C10_LengthWordIffVariadic ==
    (phase = "building" /\ last.op = "append")
        => LET i == LastInstr
               w == LastWritten
               head == 1 + (IF i.op = "Compute"
                            THEN 1 + Len(i.payload.bits) + ptrWords ELSE 0)
               size(arity, slice) ==
                   Len(slice) + (IF is_variadic(arity) THEN 1 ELSE 0)
               class(off, arity, slice) ==
                   /\ off + size(arity, slice) <= Len(w)
                   /\ IF is_variadic(arity)
                      THEN /\ w[off + 1] = Len(slice)
                           /\ SubSeq(w, off + 2, off + 1 + Len(slice)) = slice
                      ELSE SubSeq(w, off + 1, off + Len(slice)) = slice
               q == head
               b == q + size(OpKind_qubits(i.op), i.qubits)
               p == b + size(OpKind_bits(i.op), i.bits)
               m == p + size(OpKind_parameters(i.op), i.parameters)
           IN  /\ class(q, OpKind_qubits(i.op), i.qubits)
               /\ class(b, OpKind_bits(i.op), i.bits)
               /\ class(p, OpKind_parameters(i.op), i.parameters)
               /\ (i.modifier = NoModifier) <=> (m = Len(w))

\* a variadic class of three bits has been written behind its length word,
\* after an instruction of definite arities
C10_Witness ==
    /\ phase = "building"
    /\ last.op = "append"
    /\ Len(appended) = 2
    /\ appended[1].instr.op = "H"
    /\ LastInstr.op = "Compute"
    /\ LastInstr.bits = << 0, 1, 2 >>

\* C11: every instruction stored in the buffer of a builder or of a circuit
\* respects the arities of its op: for each operand class of definite arity
\* the number of operands written is the declared arity; append never stores
\* an instruction that does not.
C11_StoredArity ==
    phase \in { "building", "circuit" }
        => \A k \in 1..Len(appended) :
               LET i == appended[k].instr
                   written(arity, slice) ==
                       is_definite(arity) => Len(slice) = arity
               IN  /\ written(OpKind_qubits(i.op), i.qubits)
                   /\ written(OpKind_bits(i.op), i.bits)
                   /\ written(OpKind_parameters(i.op), i.parameters)

\* C12: QuantumCircuit::new(f) runs f on a builder whose counters are zero
\* and whose buffer is empty; when f returns Ok the circuit returned carries
\* the final counters and buffer of the builder; when f returns Err no
\* circuit is returned.
C12_New ==
    [][ /\ (phase = "none" /\ phase' = "building")
               => /\ session'.op = "new"
                  /\ num_qubits' = 0 /\ num_bits' = 0 /\ num_formals' = 0
                  /\ num_ancillas' = 0 /\ data' = << >>
        /\ (session.op = "new" /\ phase = "building" /\ phase' = "circuit")
               => circ' = [ num_qubits |-> num_qubits, num_bits |-> num_bits,
                            num_formals |-> num_formals,
                            num_ancillas |-> num_ancillas, data |-> data ]
        /\ (session.op = "new" /\ phase = "building" /\ phase' = "none")
               => circ' = NoCircuit
      ]_vars

\* new has returned a circuit that holds handles and instructions
C12_Witness ==
    /\ phase = "circuit"
    /\ session.op = "new"
    /\ circ.num_bits > 0
    /\ circ.data # << >>

\* C13: QuantumCircuit::edit(circ, f) starts f on a builder whose counts of
\* qubits, bits, formal parameters and ancillas and whose buffer are those of
\* circ; a closure that does nothing and returns Ok yields a circuit with
\* the same counts and buffer; an instruction appended during the edit is
\* written after everything the buffer holds.
C13_Edit ==
    [][ /\ (phase = "circuit" /\ phase' = "building")
               => /\ session'.op = "edit"
                  /\ num_qubits' = circ.num_qubits
                  /\ num_bits' = circ.num_bits
                  /\ num_formals' = circ.num_formals
                  /\ num_ancillas' = circ.num_ancillas
                  /\ data' = circ.data
        /\ (session.op = "edit" /\ phase = "building" /\ last.op = "opened"
                /\ phase' = "circuit")
               => circ' = last.circ
        /\ (session.op = "edit" /\ phase = "building" /\ calls' = calls + 1
                /\ last'.op = "append")
               => /\ Len(data') >= Len(data)
                  /\ SubSeq(data', 1, Len(data)) = data
      ]_vars

\* an instruction has been appended while editing a circuit that has
\* ancillas and instructions
C13_Witness ==
    /\ phase = "building"
    /\ session.op = "edit"
    /\ num_ancillas > 0
    /\ last.op = "append"
    /\ last.preData # << >>

\* C14: bind(parameters) returns None when the number of parameters differs
\* from the count of formal parameters of the circuit, and returns Some
\* concrete circuit (one without formal parameters) when they are equal.
C14_Bind ==
    returned.op = "bind"
        => IF Len(returned.arg) = returned.of.num_formals
           THEN /\ ~returned.panic
                /\ returned.val # None
                /\ returned.val.circ.num_formals = 0
           ELSE ~returned.panic /\ returned.val = None

\* C15: a circuit is concrete if and only if its count of formal parameters
\* is zero: is_concrete returns true exactly then; as_concrete and TryFrom
\* return the circuit, unchanged, inside a ConcreteCircuit exactly then, and
\* otherwise None and NotConcreteError.
C15_Concrete ==
    LET c == returned.of
        concrete == c.num_formals = 0
    IN  /\ returned.op = "is_concrete" => (returned.val <=> concrete)
        /\ returned.op = "as_concrete"
               => returned.val = IF concrete THEN [ circ |-> c ] ELSE None
        /\ returned.op = "try_from"
               => returned.val =
                      IF concrete
                      THEN [ ok |-> TRUE, val |-> [ circ |-> c ] ]
                      ELSE [ ok |-> FALSE, err |-> "NotConcreteError" ]

\* the conversion of a circuit that has bits and a formal parameter has
\* failed
C15_Witness ==
    /\ returned.op = "try_from"
    /\ returned.of.num_formals > 0
    /\ returned.of.num_bits > 0
    /\ ~returned.val.ok

\* C16: during a session the buffer of the builder is append-only: every
\* operation made through the builder leaves the buffer as it is or adds
\* words at its end; words already written are neither removed nor altered.
C16_AppendOnly ==
    [][ (phase = "building" /\ phase' = "building")
            => /\ Len(data') >= Len(data)
               /\ SubSeq(data', 1, Len(data)) = data
      ]_vars

C19_RangeInvariant ==
    /\ (Allocated /\ last.ok /\ last.op = "alloc_list")
           => LET r == last.range
              IN  /\ r[1] <= r[2]
                  /\ Len(last.handles) = List_len(r).val
                  /\ last.handles = [ i \in 1..(r[2] - r[1]) |-> r[1] + i - 1 ]
                  /\ \A h \in 0..U32_MAX :
                         List_contains(r, h) <=> h \in Range(last.handles)
    /\ (returned.op \in { "new", "from" } /\ returned.of # None)
           => returned.of[1] <= returned.of[2]
    /\ (returned.op = "iter" /\ returned.val # << >>
            /\ returned.val[Len(returned.val)] = None)
           => LET r == returned.of
              IN  returned.val =
                      [ i \in 1..(r[2] - r[1] + 1) |->
                            IF i <= r[2] - r[1] THEN [ some |-> r[1] + i - 1 ]
                            ELSE None ]
    /\ returned.op = "contains"
           => (returned.val
                   <=> returned.arg \in returned.of[1]..(returned.of[2] - 1))

\* C20: for every formal parameter f whose index the allocator can hand out
\* (0 to FormalParameter::MAX - 1), Parameter::from(f) is formal (is_formal
\* is true, is_value is false) and its as_formal returns Some handle of the
\* index of f.
C20_FormalRoundTrip ==
    (returned.op # "none" /\ "formal" \in DOMAIN returned.arg)
        => /\ returned.op = "is_formal" => returned.val
           /\ returned.op = "is_value" => ~returned.val
           /\ returned.op = "as_formal"
                  => returned.val = [ some |-> returned.arg.formal ]

\* C21: for formal parameters f and g whose indices the allocator can hand
\* out, Parameter::from(f) == Parameter::from(g) holds if and only if f and
\* g have the same index; a parameter made from a formal parameter never
\* equals one made from a value.
C21_FormalEquality ==
    returned.op = "eq"
        => LET l == returned.arg.lhs
               r == returned.arg.rhs
               formalL == "formal" \in DOMAIN l
               formalR == "formal" \in DOMAIN r
           IN  /\ (formalL /\ formalR)
                      => (returned.val <=> l.formal = r.formal)
               /\ (formalL # formalR) => ~returned.val

\* C22: every allocation call (of any kind, set_num_ancillas included) made
\* on a reachable builder returns Ok or AllocOverflow: none panics on an
\* arithmetic overflow or underflow.
C22_NoPanic ==
    last.op \in AllocOps \cup { "set_num_ancillas" } => ~last.panic

\* the words of a buffer s as the decoder lays an instruction over them: the
\* position reached, or what is wrong with the words
At(p) == [ fault |-> "none", at |-> p ]
Fault(f) == [ fault |-> f, at |-> 0 ]

\* n words
Skip(s, r, n) ==
    IF r.fault # "none" THEN r
    ELSE IF r.at + n <= Len(s) THEN At(r.at + n) ELSE Fault("short")

\* a length word and as many words as it says
SkipCounted(s, r) ==
    IF r.fault # "none" THEN r
    ELSE IF r.at + 1 > Len(s) THEN Fault("short")
    ELSE Skip(s, At(r.at + 1), s[r.at + 1])

\* a Compute: counted bits and a function pointer
SkipCompute(s, r) == Skip(s, SkipCounted(s, r), ptrWords)

\* an operand class
SkipClass(s, r, arity) ==
    IF is_variadic(arity) THEN SkipCounted(s, r) ELSE Skip(s, r, arity)

\* a modifier: a tag of the catalog and its payload
SkipModifier(s, r) ==
    IF r.fault # "none" THEN r
    ELSE IF r.at + 1 > Len(s) THEN Fault("short")
    ELSE LET t == s[r.at + 1]
         IN  IF t \notin { ModTag(m) : m \in Modifiers }
             THEN Fault("bad_modifier")
             ELSE IF HasComputePayload(CHOOSE m \in Modifiers : ModTag(m) = t)
                  THEN SkipCompute(s, At(r.at + 1))
                  ELSE Skip(s, At(r.at + 1), 1)

\* the instruction at the head of a buffer that is not empty
InstrLayout(s) ==
    LET h == ReadHeader(s[1])
    IN  IF h.id \notin { OpTag(o) : o \in Ops } THEN Fault("bad_op")
        ELSE LET op == CHOOSE o \in Ops : OpTag(o) = h.id
                 a  == IF op = "Compute" THEN SkipCompute(s, At(1)) ELSE At(1)
                 q  == SkipClass(s, a, OpKind_qubits(op))
                 b  == SkipClass(s, q, OpKind_bits(op))
                 p  == SkipClass(s, b, OpKind_parameters(op))
             IN  IF h.flags % 2 = HAS_MODIFIER THEN SkipModifier(s, p) ELSE p

\* C23: when the words left in the source start with a header whose op tag
\* is not in the catalog, or hold a modifier tag outside the six tags of the
\* catalog where the modifier is read, or end before all the words of the
\* instruction, InstrIter::next panics and returns no instruction.
C23_DecodeFatal ==
    [][ (phase = "iterating" /\ src # << >>
             /\ InstrLayout(src).fault # "none")
            => /\ phase' = "panicked"
               /\ yielded' = yielded
               /\ src' = src
               /\ instr' = instr
      ]_vars

\* after the instruction H has been yielded, the decoder has panicked on an
\* instruction whose modifier tag is not in the catalog
C23_Witness ==
    /\ phase = "panicked"
    /\ Len(yielded) = 1
    /\ yielded[1].op = "H"
    /\ InstrLayout(src).fault = "bad_modifier"

\* C24: in the words of an instruction bit 0 of the flags of the header is
\* set if and only if the instruction has a modifier; the modifier is the
\* last thing written: its tag word, then its payload, exactly one word for
\* IfBit, WhileBit and ForConst and, for IfCompute, WhileCompute and
\* ForCompute, a length word, that many bit words and the words of the
\* callback; the decoder reads a modifier exactly when the flag is set.
C24_ModifierEncoding ==
    /\ (phase = "building" /\ last.op = "append")
           => LET i == LastInstr
                  w == LastWritten
                  size(arity, slice) ==
                      Len(slice) + (IF is_variadic(arity) THEN 1 ELSE 0)
                  m == 1 + (IF i.op = "Compute"
                            THEN 1 + Len(i.payload.bits) + ptrWords ELSE 0)
                         + size(OpKind_qubits(i.op), i.qubits)
                         + size(OpKind_bits(i.op), i.bits)
                         + size(OpKind_parameters(i.op), i.parameters)
                  tail == SubSeq(w, m + 1, Len(w))
              IN  /\ (ReadHeader(w[1]).flags % 2 = 1)
                         <=> (i.modifier # NoModifier)
                  /\ i.modifier = NoModifier => tail = << >>
                  /\ (i.modifier # NoModifier
                          /\ ~HasComputePayload(i.modifier.name))
                         => tail = << ModTag(i.modifier.name),
                                      i.modifier.inner >>
                  /\ (i.modifier # NoModifier
                          /\ HasComputePayload(i.modifier.name))
                         => tail = << ModTag(i.modifier.name),
                                      Len(i.modifier.inner.bits) >>
                                       \o i.modifier.inner.bits
                                       \o i.modifier.inner.func
    /\ (phase = "iterating" /\ Len(yielded) = 1)
           => ((yielded[1].modifier # NoModifier)
                   <=> (ReadHeader(circ.data[1]).flags % 2 = 1))

\* C25: the allocation of a tuple of handles is all-or-nothing: when the
\* allocation of one element fails with AllocOverflow, no counter of the
\* builder has been advanced by the elements allocated before it.
C25_TupleAtomic ==
    (phase = "building" /\ last.op = "alloc_tuple" /\ ~last.ok)
        => Counters = last.pre

\* C26: an allocation of handles of one kind leaves the counters of the two
\* other kinds, the count of ancillas and the buffer as they were; an append
\* leaves every counter as it was.
C26_Frame ==
    /\ Allocated
           => /\ \A k \in Kinds \ { last.kind } :
                     count(k) = CountIn(last.pre, k)
              /\ num_ancillas = last.pre.num_ancillas
              /\ data = last.preData
    /\ (phase = "building" /\ last.op = "append") => Counters = last.pre

C28_Terminates ==
    /\ [][ (phase = "iterating" /\ AllArityOk
                /\ Len(yielded') = Len(yielded) + 1)
               => IF src = << >>
                  THEN yielded'[Len(yielded')] = None
                  ELSE /\ yielded'[Len(yielded')] # None
                       /\ Len(src') < Len(src)
         ]_vars
    /\ [](AllArityOk => phase \in { "iterating", "drained" })

\* C29: after any sequence of qubit allocations and calls of
\* set_num_ancillas the width, the count of qubits plus the count of
\* ancillas, does not exceed Qubit::MAX, so that the ancillas
\* [num_qubits, num_qubits + num_ancillas) are indices of qubits; a call of
\* set_num_ancillas that fails leaves the count of ancillas as it was.
C29_AncillaWindow ==
    /\ phase = "building" => num_qubits + num_ancillas <= MAX("Qubit")
    /\ (phase = "building" /\ last.op = "set_num_ancillas" /\ ~last.ok)
           => num_ancillas = last.pre.num_ancillas

\* C30: on a BitSet made by new(size), for every index i < size and every
\* value v, set(i, v) returns Some(()) without panicking, a get(i) that
\* follows returns Some(v), and get(j) of every other j < size returns what
\* it returned before the set; for i >= size get and set return None and
\* change nothing.
C30_SetThenGet ==
    [][ /\ (returned'.op \in { "get", "set" }
                /\ returned'.arg.index >= returned'.arg.pre.size)
               => /\ ~returned'.panic
                  /\ returned'.val = None
                  /\ returned'.of = returned'.arg.pre
        /\ (returned'.op = "set"
                /\ returned'.arg.index < returned'.arg.pre.size)
               => /\ ~returned'.panic
                  /\ returned'.val = [ some |-> << >> ]
        /\ (returned.op = "set" /\ ~returned.panic
                /\ returned.arg.index < returned.arg.pre.size
                /\ returned'.op = "get"
                /\ returned'.arg.index < returned.arg.pre.size)
               => IF returned'.arg.index = returned.arg.index
                  THEN /\ ~returned'.panic
                       /\ returned'.val = [ some |-> returned.arg.value ]
                  ELSE returned'.val
                           = BitSet_get(returned.arg.pre,
                                        returned'.arg.index).val
      ]_vars

====
